---- MODULE Spec2Model ----
(***************************************************************************)
(* Model of lpais.ais: the NMEA line normalizer (reassembly of multi-      *)
(* sentence AIS messages) and the decoder built on it.                     *)
(*                                                                         *)
(* Text is a string; Head, Tail, SubSeq, Len and \o are the operations     *)
(* on it.  Python's None is NoneV where a text may stand, and the empty    *)
(* tuple where normalize or decode return it.                              *)
(***************************************************************************)
EXTENDS Integers, Sequences, FiniteSets, TLC

(***************************************************************************)
(* Text helpers (Python str methods used by the code).                     *)
(***************************************************************************)
Char(s, i) == SubSeq(s, i, i)

Whitespace == {" ", "\n", "\r", "\t"}

RECURSIVE LStrip(_)
LStrip(s) == IF s # "" /\ Head(s) \in Whitespace THEN LStrip(Tail(s)) ELSE s

RECURSIVE RStrip(_)
RStrip(s) ==
    IF s # "" /\ Char(s, Len(s)) \in Whitespace
    THEN RStrip(SubSeq(s, 1, Len(s) - 1))
    ELSE s

\* str.strip()
Strip(s) == RStrip(LStrip(s))

\* index of the first occurrence of character c in s, 0 when absent
IndexOf(s, c) ==
    LET hits == {i \in 1..Len(s) : Char(s, i) = c}
    IN  IF hits = {} THEN 0 ELSE CHOOSE i \in hits : \A j \in hits : i <= j

\* str.split(c): the list of the pieces between the separators
RECURSIVE Split(_, _)
Split(s, c) ==
    LET i == IndexOf(s, c) IN
    IF i = 0 THEN <<s>>
    ELSE <<SubSeq(s, 1, i - 1)>> \o Split(SubSeq(s, i + 1, Len(s)), c)

\* c.join(parts)
RECURSIVE Join(_, _)
Join(parts, c) ==
    IF parts = <<>> THEN ""
    ELSE IF Len(parts) = 1 THEN parts[1]
    ELSE parts[1] \o c \o Join(Tail(parts), c)

Digits == "0123456789"

DigitVal(c) == IndexOf(Digits, c) - 1

IsDigit(c) == IndexOf(Digits, c) # 0

\* int(s) / float(s) succeed on a non-empty run of decimal digits
IsNumber(s) == s # "" /\ \A i \in 1..Len(s) : IsDigit(Char(s, i))

RECURSIVE ToNat(_)
ToNat(s) ==
    IF s = "" THEN 0
    ELSE 10 * ToNat(SubSeq(s, 1, Len(s) - 1)) + DigitVal(Char(s, Len(s)))

\* str(n) for a natural number
RECURSIVE NatStr(_)
NatStr(n) ==
    IF n < 10 THEN Char(Digits, n + 1)
    ELSE NatStr(n \div 10) \o Char(Digits, (n % 10) + 1)

\* None, where a text may stand (no line of the model holds a '<')
NoneV == "<None>"

(***************************************************************************)
(* Checksum codec (ais.stream.checksum): NMEA 0183 exclusive-or checksum.  *)
(***************************************************************************)
\* the printable ASCII characters in code order from 32; the tab stands in
\* for the grave accent, which no line of the model holds
Printable ==
    " !\"#$%&'()*+,-./0123456789:;<=>?@ABCDEFGHIJKLMNOPQRSTUVWXYZ[\\]^_\tabcdefghijklmnopqrstuvwxyz{|}~"

\* the code of every printable character
CodeTable ==
    [c \in {Char(Printable, i) : i \in 1..Len(Printable)} |-> 31 + IndexOf(Printable, c)]

\* ord(c)
Ord(c) ==
    IF c = "\n" THEN 10
    ELSE IF c = "\r" THEN 13
    ELSE IF c = "\t" THEN 9
    ELSE CodeTable[c]

\* bitwise exclusive or of two naturals
RECURSIVE Xor(_, _)
Xor(a, b) ==
    IF a = 0 THEN b
    ELSE IF b = 0 THEN a
    ELSE ((a + b) % 2) + 2 * Xor(a \div 2, b \div 2)

\* the exclusive or of the codes of the characters of s from the i-th on
RECURSIVE XorFrom(_, _)
XorFrom(s, i) == IF i > Len(s) THEN 0 ELSE Xor(Ord(Char(s, i)), XorFrom(s, i + 1))

XorAll(s) == XorFrom(s, 1)

HexDigits == "0123456789ABCDEF"

LowerHex == "abcdef"

\* str.upper() restricted to hexadecimal digits
UpperHex(c) ==
    IF IndexOf(LowerHex, c) # 0 THEN Char(HexDigits, 10 + IndexOf(LowerHex, c)) ELSE c

IsHex(c) == IndexOf(HexDigits, UpperHex(c)) # 0

\* the text the checksum covers: without the leading sentinel character
Covered(s) == IF s # "" /\ Head(s) \in {"!", "$"} THEN Tail(s) ELSE s

\* checksumStr(data): two upper-case hex digits for the text up to a final '*'
checksumStr(data) ==
    LET d == Covered(data)
        body == IF d # "" /\ Char(d, Len(d)) = "*" THEN SubSeq(d, 1, Len(d) - 1) ELSE d
        cs == XorAll(body)
    IN  Char(HexDigits, (cs \div 16) + 1) \o Char(HexDigits, (cs % 16) + 1)

\* isChecksumValid(nmeaStr): the two hex digits after '*' match the checksum
\* of the text before it; a missing '*' or non-hex digits give FALSE
isChecksumValid(nmeaStr) ==
    LET d == Covered(nmeaStr)
        i == IndexOf(d, "*")
    IN  /\ i # 0
        /\ Len(d) >= i + 2
        /\ IsHex(Char(d, i + 1)) /\ IsHex(Char(d, i + 2))
        /\ UpperHex(Char(d, i + 1)) \o UpperHex(Char(d, i + 2))
               = checksumStr(SubSeq(d, 1, i - 1))

(***************************************************************************)
(* Tagblock parser (ais.stream.parseTagBlock).  A dict is a function from  *)
(* its keys to its values.                                                 *)
(***************************************************************************)
EmptyDict == [k \in {} |-> ""]

\* dict.update: the entries of e replace those of d
DictUpdate(d, e) ==
    [k \in DOMAIN d \cup DOMAIN e |-> IF k \in DOMAIN e THEN e[k] ELSE d[k]]

\* dict.get(key, None)
DictGet(d, k) == IF k \in DOMAIN d THEN d[k] ELSE NoneV

\* the key under which the tagblock entry with code c is stored
TagKey(c) ==
    IF c = "c" THEN "tagblock_timestamp"
    ELSE IF c = "s" THEN "tagblock_station"
    ELSE IF c = "t" THEN "tagblock_text"
    ELSE IF c = "d" THEN "tagblock_destination"
    ELSE "tagblock_other"

RECURSIVE TagDict(_)
TagDict(entries) ==
    IF entries = <<>> THEN EmptyDict
    ELSE LET n == Len(entries)
             kv == Split(entries[n], ":")
             val == IF Len(kv) > 1 THEN kv[2] ELSE ""
         IN  DictUpdate(TagDict(SubSeq(entries, 1, n - 1)), [k \in {TagKey(kv[1])} |-> val])

\* parseTagBlock(line): (tagblock dict, remaining sentence)
parseTagBlock(raw) ==
    IF raw = "" \/ Head(raw) # "\\" THEN <<EmptyDict, raw>>
    ELSE LET rest == Tail(raw)
             i == IndexOf(rest, "\\")
             block == SubSeq(rest, 1, i - 1)
             star == IndexOf(block, "*")
             text == IF star = 0 THEN block ELSE SubSeq(block, 1, star - 1)
         IN  IF i = 0 THEN <<EmptyDict, raw>>
             ELSE <<TagDict(Split(text, ",")), SubSeq(rest, i + 1, Len(rest))>>

(***************************************************************************)
(* State.                                                                  *)
(*   cfg      the options the normalizer / decoder was created with        *)
(*   buffers  the partial messages, by buffer slot                         *)
(*   last     the latest call: its input line, what it returned, the       *)
(*            errors it handed to handle_err, the exception it raised (if  *)
(*            any), the buffers as they were before the call, and whether  *)
(*            the line is the last sentence just completed, given again    *)
(*   mon      per slot, the latest lines received for it (history only)    *)
(***************************************************************************)
VARIABLES cfg, buffers, last, mon

vars == <<cfg, buffers, last, mon>>

\* a returned None
None == <<>>

\* an AISError instance handed to handle_err
Err(type, line) == [type |-> type, line |-> line]

\* how a call of normalize ends
Out(ret, errs, exc, bufs) == [ret |-> ret, errs |-> errs, exc |-> exc, buffers |-> bufs]

\* buffers = {}
NoBuffers == [s \in {} |-> <<>>]

VDM == "VDM"

VDO == "VDO"

UNKNOWN == "UNKNOWN"

\* the station field: the last field after the payload starting with r or b
FindStation(fields) ==
    LET cand == {i \in 7..Len(fields) : fields[i] # "" /\ Head(fields[i]) \in {"r", "b"}}
    IN  IF cand = {} THEN NoneV
        ELSE fields[CHOOSE i \in cand : \A j \in cand : j <= i]

Station(c, fields) ==
    LET station == FindStation(fields)
    IN  IF station = NoneV /\ c.allow_unknown THEN UNKNOWN ELSE station

TagblockStation(c, tagblock) ==
    IF c.ignore_tagblock_station THEN NoneV
    ELSE DictGet(tagblock, "tagblock_station")

\* BufferSlot with the channel never part of the slot
BufferSlotNoChannel(c, tagblock, fields) ==
    <<TagblockStation(c, tagblock), Station(c, fields), fields[4]>>

\* BufferSlot with the channel always part of the slot
BufferSlotChannel(c, tagblock, fields) ==
    <<TagblockStation(c, tagblock), Station(c, fields), fields[4], fields[5]>>

\* seqId and channel make a unique stream
BufferSlot(c, tagblock, fields) ==
    <<TagblockStation(c, tagblock), Station(c, fields), fields[4]>>
        \o (IF c.treat_ab_equal THEN <<>> ELSE <<fields[5]>>)

NewPacket(tagblock, fields, origline) ==
    [payload |-> fields[6],
     timestamp |-> Strip(fields[Len(fields)]),
     tagblock |-> tagblock,
     origline |-> origline]

\* StoreFirst that keeps the partials of the slot
StoreFirstKeep(bufs, slot, pkt) ==
    [s \in DOMAIN bufs \cup {slot} |->
        IF s # slot THEN bufs[s]
        ELSE IF slot \in DOMAIN bufs THEN Append(bufs[slot], pkt) ELSE <<pkt>>]

\* buffers[bufferSlot] = [newPacket]
StoreFirst(bufs, slot, pkt) ==
    [s \in DOMAIN bufs \cup {slot} |-> IF s = slot THEN <<pkt>> ELSE bufs[s]]

\* AppendPacket that puts the packet first
AppendPacketFirst(bufs, slot, pkt) ==
    [s \in DOMAIN bufs |-> IF s = slot THEN <<pkt>> \o bufs[s] ELSE bufs[s]]

\* buffers[bufferSlot].append(newPacket)
AppendPacket(bufs, slot, pkt) ==
    [s \in DOMAIN bufs |-> IF s = slot THEN Append(bufs[s], pkt) ELSE bufs[s]]

\* RemoveSlot that removes nothing
RemoveSlotKeep(bufs, slot) == bufs

\* del buffers[bufferSlot]
RemoveSlot(bufs, slot) == [s \in DOMAIN bufs \ {slot} |-> bufs[s]]

\* TimestampPair that looks at the timestamp fields only
TimestampPairFields(c, part, timestamp, tagblock) ==
    IF IsNumber(part.timestamp) /\ IsNumber(timestamp)
    THEN [ok |-> TRUE, ts1 |-> ToNat(part.timestamp), ts2 |-> ToNat(timestamp)]
    ELSE IF c.allow_missing_timestamps
    THEN [ok |-> TRUE, ts1 |-> 0, ts2 |-> 0]
    ELSE [ok |-> FALSE, ts1 |-> 0, ts2 |-> 0]

\* the pair (ts1, ts2) compared for one part, or its absence
TimestampPair(c, part, timestamp, tagblock) ==
    IF IsNumber(part.timestamp) /\ IsNumber(timestamp)
    THEN [ok |-> TRUE, ts1 |-> ToNat(part.timestamp), ts2 |-> ToNat(timestamp)]
    ELSE IF /\ "tagblock_timestamp" \in DOMAIN part.tagblock
            /\ IsNumber(part.tagblock["tagblock_timestamp"])
            /\ "tagblock_timestamp" \in DOMAIN tagblock
            /\ IsNumber(tagblock["tagblock_timestamp"])
    THEN [ok |-> TRUE,
          ts1 |-> ToNat(part.tagblock["tagblock_timestamp"]),
          ts2 |-> ToNat(tagblock["tagblock_timestamp"])]
    ELSE IF c.allow_missing_timestamps
    THEN [ok |-> TRUE, ts1 |-> 0, ts2 |-> 0]
    ELSE [ok |-> FALSE, ts1 |-> 0, ts2 |-> 0]

\* Differs with the bounds of the window left out
DiffersAtWindow(c, ts1, ts2) == ts1 >= ts2 + c.window \/ ts1 <= ts2 - c.window

\* ts1 > ts2 + window or ts1 < ts2 - window
Differs(c, ts1, ts2) == ts1 > ts2 + c.window \/ ts1 < ts2 - c.window

\* the sanity check over parts[i..]: "ok" with the last ts1, or the error met
RECURSIVE SanityCheck(_, _, _, _, _)
SanityCheck(c, parts, i, timestamp, tagblock) ==
    LET pair == TimestampPair(c, parts[i], timestamp, tagblock)
    IN  IF ~pair.ok THEN [status |-> "MissingTimestamps", ts1 |-> 0]
        ELSE IF Differs(c, pair.ts1, pair.ts2) THEN [status |-> "DifferingTimestamps", ts1 |-> 0]
        ELSE IF i = Len(parts) THEN [status |-> "ok", ts1 |-> pair.ts1]
        ELSE SanityCheck(c, parts, i + 1, timestamp, tagblock)

\* MergeTagblocks in which the last part's values win
RECURSIVE MergeTagblocksLast(_)
MergeTagblocksLast(parts) ==
    IF parts = <<>> THEN EmptyDict
    ELSE DictUpdate(Head(parts).tagblock, MergeTagblocksLast(Tail(parts)))

\* the tagblock of the message: the first part's values win
RECURSIVE MergeTagblocks(_)
MergeTagblocks(parts) ==
    IF parts = <<>> THEN EmptyDict
    ELSE DictUpdate(MergeTagblocks(Tail(parts)), Head(parts).tagblock)

\* the text the new checksum is computed over
ChecksumedStr(fields, payload) ==
    Join(<<fields[1], "1,1", fields[4], fields[5], payload,
           Split(fields[7], "*")[1] \o "*">>, ",")

\* the one-line sentence built from the parts
OutStr(fields, payload, ts1) ==
    LET checksumed_str == ChecksumedStr(fields, payload)
        head == checksumed_str \o checksumStr(checksumed_str)
        n == Len(fields)
    IN  IF ts1 = 0
        THEN IF n - 1 >= 8
             THEN head \o "," \o Join(SubSeq(fields, 8, n - 1), ",")
             ELSE head
        ELSE head \o "," \o Join(SubSeq(fields, 8, n), ",")

\* "".join([p[key] for p in parts])
RECURSIVE JoinParts(_, _)
JoinParts(parts, key) ==
    IF parts = <<>> THEN "" ELSE Head(parts)[key] \o JoinParts(Tail(parts), key)

\* OnlyMessageEnd that starts a buffer with the packet
OnlyMessageEndKept(bufs, slot, pkt, line, errs) ==
    Out(None, Append(errs, Err("OnlyMessageEnd", line)), "none", StoreFirst(bufs, slot, pkt))

\* the last sentence without the preceding packets
OnlyMessageEnd(bufs, slot, pkt, line, errs) ==
    Out(None, Append(errs, Err("OnlyMessageEnd", line)), "none", bufs)

\* SanityFailed that puts the parts back
SanityFailedKept(bufs, left, status, line, errs) ==
    Out(None, Append(errs, Err(status, Strip(line))), "none", bufs)

\* the sanity check found the timestamps missing or differing: the error is
\* handed to handle_err and None returned; bufs are the buffers the call
\* began with, left the buffers without the parts of the message
SanityFailed(bufs, left, status, line, errs) ==
    Out(None, Append(errs, Err(status, Strip(line))), "none", left)

\* the last sentence of a message has arrived
FinishMessage(c, bufs, slot, pkt, tagblock, line, fields, errs) ==
    IF slot \notin DOMAIN bufs
    THEN OnlyMessageEnd(bufs, slot, pkt, line, errs)
    ELSE LET parts == AppendPacket(bufs, slot, pkt)[slot]
             left == RemoveSlot(AppendPacket(bufs, slot, pkt), slot)
             chk == SanityCheck(c, parts, 1, pkt.timestamp, tagblock)
         IN  IF chk.status # "ok"
             THEN SanityFailed(bufs, left, chk.status, line, errs)
             ELSE IF Len(fields) < 7
             THEN Out(None, errs, "IndexError", left)
             ELSE LET out_str == OutStr(fields, JoinParts(parts, "payload"), chk.ts1)
                      errs2 == IF isChecksumValid(out_str) THEN errs
                               ELSE Append(errs, Err("InvalidChecksumInConstructed", Strip(line)))
                  IN  Out(<<MergeTagblocks(parts), Strip(out_str) \o "\n",
                            JoinParts(parts, "origline")>>,
                          errs2, "none", left)

\* MiddleWithoutBuffer that starts a buffer with the packet
MiddleStartsBuffer(bufs, slot, pkt, errs) ==
    Out(None, errs, "none", StoreFirst(bufs, slot, pkt))

\* buffers[bufferSlot].append(newPacket) when the slot has no buffer
MiddleWithoutBuffer(bufs, slot, pkt, errs) == Out(None, errs, "KeyError", bufs)

\* a sentence of a multiline message
Multiline(c, bufs, tagblock, line, origline, fields, totNumSentences, errs) ==
    IF ~IsNumber(fields[3]) THEN Out(None, errs, "ValueError", bufs)
    ELSE LET sentenceNum == ToNat(fields[3])
             slot == BufferSlot(c, tagblock, fields)
             pkt == NewPacket(tagblock, fields, origline)
         IN  IF Station(c, fields) = NoneV /\ TagblockStation(c, tagblock) = NoneV
             THEN Out(None, Append(errs, Err("NoStationFound", Strip(line))), "none", bufs)
             ELSE IF sentenceNum = 1
             THEN Out(None, errs, "none", StoreFirst(bufs, slot, pkt))
             ELSE IF totNumSentences > sentenceNum
             THEN IF slot \in DOMAIN bufs
                  THEN Out(None, errs, "none", AppendPacket(bufs, slot, pkt))
                  ELSE MiddleWithoutBuffer(bufs, slot, pkt, errs)
             ELSE FinishMessage(c, bufs, slot, pkt, tagblock, line, fields, errs)

\* SingleSentence that forgets the partial messages
SingleSentenceFlush(bufs, tagblock, line, origline, errs) ==
    Out(<<tagblock, line, origline>>, errs, "none", NoBuffers)

\* a single line needs no work, so pass it along
SingleSentence(bufs, tagblock, line, origline, errs) ==
    Out(<<tagblock, line, origline>>, errs, "none", bufs)

\* the sentence once its checksum has been dealt with
Checked(c, bufs, tagblock, line, origline, fields, errs) ==
    IF Len(fields) < 6
    THEN Out(None, Append(errs, Err("TooFewFields", Strip(line))), "none", bufs)
    ELSE IF ~IsNumber(fields[2]) THEN Out(None, errs, "ValueError", bufs)
    ELSE IF ToNat(fields[2]) = 1 THEN SingleSentence(bufs, tagblock, line, origline, errs)
    ELSE Multiline(c, bufs, tagblock, line, origline, fields, ToNat(fields[2]), errs)

\* NotAis that looks at the length only
NotAisShort(line) == Len(line) < 7

\* not an AIS sentence: too short, or neither VDM nor VDO
NotAis(line) == Len(line) < 7 \/ SubSeq(line, 4, 6) \notin {VDM, VDO}

\* what normalize first derives from the line it is given: the tagblock, the
\* sentence with its line ending normalised, whether the checksum of the
\* sentence is valid, and its fields
ReadLine(origline) ==
    LET parsed == parseTagBlock(origline)
        line == Strip(parsed[2]) \o "\n"
    IN  [tagblock |-> parsed[1], line |-> line, valid |-> isChecksumValid(line),
         fields |-> Split(line, ",")]

\* the checksum is checked and wrong
ChecksumFails(c, rd) == c.validate_checksum /\ ~rd.valid

\* Rejected whatever pass_invalid_checksums
RejectedAlways(c, rd) == ChecksumFails(c, rd)

\* the line is dropped for its checksum
Rejected(c, rd) == ChecksumFails(c, rd) /\ ~c.pass_invalid_checksums

\* normalize(origline) of a normalizer created with the options c, called with
\* the buffers bufs; rd is ReadLine(origline)
NormalizeRead(c, bufs, origline, rd) ==
    LET errs == IF ChecksumFails(c, rd) THEN <<Err("InvalidChecksum", Strip(rd.line))>>
                ELSE <<>>
    IN  IF NotAis(rd.line) THEN Out(<<rd.tagblock, rd.line, origline>>, <<>>, "none", bufs)
        ELSE IF Rejected(c, rd) THEN Out(None, errs, "none", bufs)
        ELSE Checked(c, bufs, rd.tagblock, rd.line, origline, rd.fields, errs)

(***************************************************************************)
(* Configuration: the keyword arguments of normalizer() and decoder().     *)
(***************************************************************************)
DefaultWindow == 2

DefaultCfg ==
    [validate_checksum |-> TRUE,
     allow_unknown |-> FALSE,
     window |-> DefaultWindow,
     ignore_tagblock_station |-> FALSE,
     treat_ab_equal |-> FALSE,
     pass_invalid_checksums |-> FALSE,
     allow_missing_timestamps |-> FALSE,
     keep_nmea |-> FALSE]

(***************************************************************************)
(* Input lines.                                                            *)
(***************************************************************************)
\* the largest number of sentences of a message among the input lines
MaxTotal == 3

\* the longest buffer the model lets a slot grow to
MaxParts == MaxTotal

AIVDM == "!AIVDM"

\* "!AIVDM,<total>,<num>,6,<channel>,<payload>,<fill>*<checksum>"
Sentence(total, num, channel, payload, fill) ==
    LET body == Join(<<AIVDM, total, num, "6", channel, payload, fill>>, ",")
    IN  body \o "*" \o checksumStr(body)

\* "\<text>*00\" (the checksum of a tagblock is not looked at)
Tag(text) == "\\" \o text \o "*00\\"

\* the payload of sentence num of the messages of family f
Payload(f, num) == f \o NatStr(num)

\* a sentence followed by the receiving station r1 and a timestamp, behind a
\* tagblock that holds a text
Uscg(total, num, channel, f, ts) ==
    Tag("t:" \o Payload(f, num))
        \o Sentence(NatStr(total), NatStr(num), channel, Payload(f, num), "0")
        \o ",r1," \o NatStr(ts) \o "\n"

\* a sentence behind a tagblock that holds the station r1 and the timestamp 5
Tagged(total, num, fill) ==
    Tag("s:r1,c:5")
        \o Sentence(NatStr(total), NatStr(num), "A", Payload("z", num), fill)
        \o "\n"

\* the sentences of the messages of 2 and of MaxTotal sentences on channel A
LinesA == UNION {{Uscg(n, k, "A", "a", 5) : k \in 1..n} : n \in {2, MaxTotal}}

\* the first sentence of another message on the slot of LinesA
AltFirst ==
    Tag("t:x1,d:o")
        \o Sentence("2", "1", "A", Payload("x", 1), "0")
        \o ",r1,5\n"

\* a message of two sentences on channel B, same station and sequence id
LinesB == {Uscg(2, k, "B", "b", 5) : k \in 1..2}

\* last sentences whose timestamp is at, or just beyond, the window around 5
LinesTs ==
    {Uscg(2, 2, "A", "a", 5 + d) :
        d \in {0 - DefaultWindow - 1, 0 - DefaultWindow, DefaultWindow, DefaultWindow + 1}}

\* a message of one sentence, same station, sequence id and channel as LinesA
Single == Uscg(1, 1, "A", "s", 5)

\* a message of one sentence whose line ends the DOS way
SingleDos == Sentence("1", "1", "B", Payload("d", 1), "0") \o ",r1,5\r\n"

\* a message of two sentences with the station and timestamp in the tagblock
LinesTagged == {Tagged(2, 1, "0"), Tagged(2, 2, "2")}

\* its last sentence without the fill bits field: 6 fields
SixFields ==
    LET body == Join(<<AIVDM, "2", "2", "6", "A", Payload("z", 2)>>, ",")
    IN  Tag("s:r1,c:5")
            \o body \o "*" \o checksumStr(body) \o "\n"

\* sentence num of 2 of LinesA with a wrong checksum
BadChecksum(num) ==
    LET body == Join(<<AIVDM, "2", NatStr(num), "6", "A", Payload("a", num),
                       "0">>, ",")
    IN  body \o "*" \o checksumStr(body \o "~")
             \o ",r1,5\n"

\* a single sentence with a wrong checksum
BadSingle ==
    LET body == Join(<<AIVDM, "1", "1", "6", "A", Payload("s", 1),
                       "0">>, ",")
    IN  body \o "*" \o checksumStr(body \o "~")
             \o ",r1,5\r\n"

\* not AIS: another NMEA sentence, and a line shorter than 7 characters
NonAis == "$GPGGA,1*00\n"

Short == "!AI\n"

\* another NMEA sentence behind a tagblock with a station
TaggedNonAis == Tag("s:r9") \o "$GPGGA,2*00\n"

\* a single sentence without the fill bits: no digit before the "*"
NoPad ==
    LET body == Join(<<AIVDM, "1", "1", "6", "A", "p">>, ",")
    IN  body \o "*" \o checksumStr(body) \o "\n"

\* an AIS sentence of 3 fields
TooFew ==
    LET body == Join(<<AIVDM, "2", "1">>, ",")
    IN  body \o "*" \o checksumStr(body) \o "\n"

\* a first sentence that names no station, neither in a field nor in a tagblock
NoStation == Sentence("2", "1", "A", Payload("n", 1), "0") \o "\n"

\* a sentence whose number of sentences is no number
BadTotal ==
    Sentence("x", "1", "A", Payload("q", 1), "0")
        \o ",r1,5\n"

\* the input lines of the normalizer
Lines ==
    LinesA \cup {AltFirst, Single, SingleDos, NoPad, BadChecksum(2), TaggedNonAis, Short,
                  TooFew, NoStation, BadTotal}

\* the input lines for the two channels
ChannelLines == {Uscg(2, k, "A", "a", 5) : k \in 1..2} \cup LinesB \cup {Uscg(3, 2, "B", "b", 5)}

\* the input lines for the timestamps: a message of two sentences whose last
\* sentence is at, or just beyond, the window; one of three sentences whose
\* second sentence is late; the message with the timestamp in the tagblock
WindowLines ==
    {Uscg(2, 1, "A", "a", 5), Uscg(2, 2, "A", "a", 5)} \cup LinesTs
        \cup {Uscg(3, 1, "A", "a", 5), Uscg(3, 2, "A", "a", 5), Uscg(3, 2, "A", "a", 8),
              Uscg(3, 3, "A", "a", 5), Uscg(3, 3, "A", "a", 6)}
        \cup LinesTagged \cup {SixFields}

\* the input lines for the checksums
ChecksumLines ==
    {Uscg(2, 1, "A", "a", 5), Uscg(2, 2, "A", "a", 5), BadChecksum(1), BadChecksum(2),
     Single, BadSingle, NonAis}

\* a last sentence behind a tagblock with a text and a destination
AltLast ==
    Tag("t:y2,d:p")
        \o Sentence("2", "2", "A", Payload("y", 2), "0")
        \o ",r1,5\n"

\* a middle sentence behind a tagblock with a destination and a group
MidTagged ==
    Tag("d:m,g:1")
        \o Sentence("3", "2", "A", Payload("m", 2), "0")
        \o ",r1,5\n"

\* a last sentence without the fill bits field: its checksum ends the payload
\* field, and the station and the timestamp follow
NoFill ==
    LET body == Join(<<AIVDM, "2", "2", "6", "A", Payload("a", 2)>>, ",")
    IN  body \o "*" \o checksumStr(body) \o ",r1,5\n"

\* the input lines for the sentence that is built
SynthLines ==
    {Uscg(2, 1, "A", "a", 5), AltFirst, Uscg(3, 2, "A", "a", 5), MidTagged,
     Uscg(2, 2, "A", "a", 5), Uscg(3, 3, "A", "a", 5), AltLast, NoFill}

\* sentence num of 2 with the station r1 and a timestamp as fields, behind a
\* tagblock with another timestamp
Stamped(num, ts, tagTs) ==
    Tag("c:" \o NatStr(tagTs))
        \o Sentence("2", NatStr(num), "A", Payload("f", num), "0")
        \o ",r1," \o NatStr(ts) \o "\n"

\* sentence num of 2 with the station r1 as last field, behind a tagblock
\* with a timestamp
TagStamped(num, tagTs) ==
    Tag("c:" \o NatStr(tagTs))
        \o Sentence("2", NatStr(num), "A", Payload("g", num), "0")
        \o ",r1\n"

\* sentence num of total with the station r1 as last field: no timestamp
NoTs(total, num) ==
    Sentence(NatStr(total), NatStr(num), "A", Payload("h", num), "0") \o ",r1\n"

\* the input lines for the sources of the timestamps: timestamp fields that
\* agree while the tagblocks do not, and the reverse; tagblock timestamps at
\* and beyond the window; no timestamp in a first, a middle, a last sentence
TimestampLines ==
    {Stamped(1, 5, 7), Stamped(2, 5, 20), Stamped(2, 8, 7),
     TagStamped(1, 7), TagStamped(2, 7 + DefaultWindow), TagStamped(2, 8 + DefaultWindow),
     NoTs(2, 1), NoTs(3, 2), NoTs(2, 2)}

\* the input lines of the decoder
DecoderLines ==
    {Uscg(n, k, "A", "a", 5) : n \in 2..3, k \in 1..2} \cup {Uscg(3, 3, "A", "a", 5)}
        \cup {Single, BadChecksum(2), NonAis, Short, NoPad}

\* a first sentence of a message of no sentence: int(fields[1]) is 0
ZeroTotal == Uscg(0, 1, "A", "a", 5)

\* sentences of messages of 0, 2 and 3 sentences, and a message of one
TotalLines ==
    {ZeroTotal, Uscg(2, 1, "A", "a", 5), Uscg(3, 1, "B", "a", 5), Uscg(3, 2, "A", "a", 5),
     Uscg(3, 2, "B", "a", 5), Uscg(2, 2, "A", "a", 5), Uscg(3, 3, "B", "a", 5), Single}

AllLines ==
    Lines \cup ChannelLines \cup WindowLines \cup ChecksumLines \cup DecoderLines
        \cup SynthLines \cup TimestampLines \cup TotalLines

\* ReadLine of every input line, worked out once
LineTable == [origline \in AllLines |-> ReadLine(origline)]

\* normalize(origline) of a normalizer created with the options c, called with
\* the buffers bufs
normalize(c, bufs, origline) == NormalizeRead(c, bufs, origline, LineTable[origline])

(***************************************************************************)
(* The history kept for the properties.                                    *)
(***************************************************************************)
\* the slot of a line that reaches no buffer
NoSlot == <<>>

\* where a line ends up when it reaches the buffers: its slot, its sentence
\* number and the number of sentences of its message
ResolvedRead(c, rd) ==
    LET fields == rd.fields
        no == [multi |-> FALSE, slot |-> NoSlot, num |-> 0, total |-> 0]
    IN  IF NotAis(rd.line) \/ Rejected(c, rd) THEN no
        ELSE IF Len(fields) < 6 \/ ~IsNumber(fields[2]) \/ ~IsNumber(fields[3]) THEN no
        ELSE IF ToNat(fields[2]) = 1 THEN no
        ELSE IF Station(c, fields) = NoneV /\ TagblockStation(c, rd.tagblock) = NoneV THEN no
        ELSE [multi |-> TRUE, slot |-> BufferSlot(c, rd.tagblock, fields),
              num |-> ToNat(fields[3]), total |-> ToNat(fields[2])]

\* ResolvedRead of an input line
Resolved(c, origline) == ResolvedRead(c, LineTable[origline])

\* the entry of the history for a call
Entry(origline, r, o) ==
    [line |-> origline, num |-> r.num, total |-> r.total,
     res |-> o.ret # None, errs |-> o.errs, exc |-> o.exc]

\* mon[slot].run: the calls for the slot since its latest first sentence, as
\* long as they are sentences 1, 2, ... of as many, in this order, and nothing
\* else; mon[slot].dropped: the call before that first sentence when it was a
\* first sentence for the slot too
MonNext(m, origline, r, o) ==
    LET cur == IF r.slot \in DOMAIN m THEN m[r.slot] ELSE [run |-> <<>>, dropped |-> <<>>]
        e == Entry(origline, r, o)
        new == IF r.num = 1
               THEN [run |-> <<e>>,
                     dropped |-> IF Len(cur.run) = 1 THEN cur.run ELSE <<>>]
               ELSE IF /\ cur.run # <<>>
                       /\ r.num = Len(cur.run) + 1
                       /\ r.num <= r.total
                       /\ r.total = cur.run[1].total
               THEN [run |-> Append(cur.run, e), dropped |-> cur.dropped]
               ELSE [run |-> <<>>, dropped |-> <<>>]
    IN  IF ~r.multi THEN m
        ELSE IF new.run = <<>> THEN [s \in DOMAIN m \ {r.slot} |-> m[s]]
        ELSE [s \in DOMAIN m \cup {r.slot} |-> IF s = r.slot THEN new ELSE m[s]]

(***************************************************************************)
(* The normalizer: one action, a call of normalize.                        *)
(***************************************************************************)
\* a normalizer created with one of the options of configs
InitWith(configs) ==
    /\ cfg \in configs
    /\ buffers = NoBuffers
    /\ last = [op |-> "none", line |-> "", ret |-> None, errs |-> <<>>, exc |-> "none",
               pre |-> NoBuffers, slot |-> NoSlot, decoder |-> "idle", out |-> None,
               again |-> FALSE]
    /\ mon = NoBuffers

\* the line of this call is the one of the call before, which returned the
\* message it was the last sentence of
Again(origline, r) == r.multi /\ last.op # "none" /\ origline = last.line /\ last.ret # None

\* a call of normalize; the line is read, and the outcome worked out, once
Normalize(origline) ==
    \E rd \in {ReadLine(origline)} :
    \E o \in {NormalizeRead(cfg, buffers, origline, rd)} :
    \E r \in {ResolvedRead(cfg, rd)} :
        /\ \A s \in DOMAIN o.buffers : Len(o.buffers[s]) <= MaxParts
        /\ buffers' = o.buffers
        /\ last' = [op |-> "normalize", line |-> origline, ret |-> o.ret, errs |-> o.errs,
                    exc |-> o.exc, pre |-> buffers, slot |-> r.slot,
                    decoder |-> "idle", out |-> None, again |-> Again(origline, r)]
        /\ mon' = MonNext(mon, origline, r, o)
        /\ UNCHANGED cfg

Init == InitWith({DefaultCfg})

Next == \E origline \in Lines : Normalize(origline)

Spec == Init /\ [][Next]_vars

\* two normalizers: channels apart, and channels A and B treated as equal
InitChannels == InitWith({DefaultCfg, [DefaultCfg EXCEPT !.treat_ab_equal = TRUE]})

NextChannels == \E origline \in ChannelLines : Normalize(origline)

SpecChannels == InitChannels /\ [][NextChannels]_vars

NextWindow == \E origline \in WindowLines : Normalize(origline)

SpecWindow == Init /\ [][NextWindow]_vars

\* three normalizers: checksums checked, not checked, and checked but passed
InitChecksum ==
    InitWith({DefaultCfg,
              [DefaultCfg EXCEPT !.validate_checksum = FALSE],
              [DefaultCfg EXCEPT !.pass_invalid_checksums = TRUE]})

NextChecksum == \E origline \in ChecksumLines : Normalize(origline)

SpecChecksum == InitChecksum /\ [][NextChecksum]_vars

\* two normalizers: timestamps required, and missing timestamps allowed
InitTimestamps == InitWith({DefaultCfg, [DefaultCfg EXCEPT !.allow_missing_timestamps = TRUE]})

NextTimestamps == \E origline \in TimestampLines : Normalize(origline)

SpecTimestamps == InitTimestamps /\ [][NextTimestamps]_vars

NextTotals == \E origline \in TotalLines : Normalize(origline)

SpecTotals == Init /\ [][NextTotals]_vars

NextSynth == \E origline \in SynthLines : Normalize(origline)

SpecSynth == Init /\ [][NextSynth]_vars

(***************************************************************************)
(* The decoder: one action, a call of decode.                              *)
(***************************************************************************)
\* ais.decode(body, pad) when it succeeds: the fields of the message, here
\* the two values they are worked out from
decode_ais(body, pad) == [body |-> body, pad |-> NatStr(pad)]

\* how a call of decode ends past the call of normalize
DecodeEnd(out, errs, exc, decoder) ==
    [out |-> out, errs |-> errs, exc |-> exc, decoder |-> decoder]

\* HandleDecodeError that reports the sentence it decoded
HandleDecodeErrorLine(errs, line, origline) ==
    DecodeEnd(None, Append(errs, Err("DecodeError", Strip(line))), "none", "raised")

\* ais.decode raised: the error is handed to handle_err with the original
\* line(s), and decode returns None
HandleDecodeError(errs, line, origline) ==
    DecodeEnd(None, Append(errs, Err("DecodeError", Strip(origline))), "none", "raised")

\* how a call of decode ends, given how the call of normalize in it ended (o)
\* and whether ais.decode succeeds (ok): what it returns, the errors handed
\* to handle_err, the exception raised, and whether ais.decode was called
DecodeData(c, o, ok) ==
    LET line == o.ret[2]
        origline == o.ret[3]
        fields == Split(line, ",")
        before == Split(line, "*")[1]
        res == DictUpdate(decode_ais(fields[6], ToNat(Char(before, Len(before)))), o.ret[1])
    IN  IF o.exc # "none" THEN DecodeEnd(None, o.errs, o.exc, "idle")
        ELSE IF o.ret = None THEN DecodeEnd(None, o.errs, "none", "idle")
        ELSE IF Len(fields) < 6 \/ before = "" THEN DecodeEnd(None, o.errs, "IndexError", "idle")
        ELSE IF ~IsNumber(Char(before, Len(before)))
        THEN DecodeEnd(None, o.errs, "ValueError", "idle")
        ELSE IF ~ok THEN HandleDecodeError(o.errs, line, origline)
        ELSE IF c.keep_nmea
        THEN DecodeEnd(DictUpdate(res, [k \in {"nmea"} |-> origline]), o.errs, "none", "returned")
        ELSE DecodeEnd(res, o.errs, "none", "returned")

Decode(origline, ok) ==
    \E rd \in {ReadLine(origline)} :
    \E o \in {NormalizeRead(cfg, buffers, origline, rd)} :
    \E r \in {ResolvedRead(cfg, rd)} :
    \E d \in {DecodeData(cfg, o, ok)} :
        /\ \A s \in DOMAIN o.buffers : Len(o.buffers[s]) <= MaxParts
        /\ buffers' = o.buffers
        /\ last' = [op |-> "decode", line |-> origline, ret |-> o.ret, errs |-> d.errs,
                    exc |-> d.exc, pre |-> buffers, slot |-> r.slot,
                    decoder |-> d.decoder, out |-> d.out, again |-> Again(origline, r)]
        /\ mon' = MonNext(mon, origline, r, o)
        /\ UNCHANGED cfg

\* two decoders: the default one, and one that keeps the NMEA lines
InitDecoder == InitWith({DefaultCfg, [DefaultCfg EXCEPT !.keep_nmea = TRUE]})

NextDecoder == \E origline \in DecoderLines, ok \in BOOLEAN : Decode(origline, ok)

SpecDecoder == InitDecoder /\ [][NextDecoder]_vars

(***************************************************************************)
(* Properties.                                                             *)
(***************************************************************************)
\* the call of last, where it reaches the buffers
LastResolved == Resolved(cfg, last.line)

\* the payload field of a sentence
PayloadOf(line) == Split(line, ",")[6]

\* the payloads of the lines of a run, one after the other
RECURSIVE RunPayload(_)
RunPayload(run) ==
    IF run = <<>> THEN ""
    ELSE LineTable[Head(run).line].fields[6] \o RunPayload(Tail(run))

\* the lines of a run, one after the other
RECURSIVE RunLines(_)
RunLines(run) == IF run = <<>> THEN "" ELSE Head(run).line \o RunLines(Tail(run))

\* the tagblocks of the lines of a run in one: the value of a key is the one
\* of the first line that has the key
RunTagblock(run) ==
    LET tb(i) == LineTable[run[i].line].tagblock
        keys == UNION {DOMAIN tb(i) : i \in 1..Len(run)}
    IN  [k \in keys |->
            tb(CHOOSE i \in 1..Len(run) :
                   k \in DOMAIN tb(i) /\ \A j \in 1..(i - 1) : k \notin DOMAIN tb(j))[k]]

\* the timestamp field of a line, NoneV when its last field is no number
FieldTs(origline) ==
    LET fields == LineTable[origline].fields
        ts == Strip(fields[Len(fields)])
    IN  IF IsNumber(ts) THEN ts ELSE NoneV

Abs(n) == IF n < 0 THEN 0 - n ELSE n

\* the lines of a run are sentences with the payload and the fill bits fields
\* (7 fields at least), and their timestamps are within the window of the
\* timestamp of the last of them
RunInWindow(c, run) ==
    \A i \in 1..Len(run) :
        /\ Len(LineTable[run[i].line].fields) >= 7
        /\ FieldTs(run[i].line) # NoneV
        /\ FieldTs(run[Len(run)].line) # NoneV
        /\ Abs(ToNat(FieldTs(run[i].line)) - ToNat(FieldTs(run[Len(run)].line))) <= c.window

\* the calls of a run before the last sentence of the message returned None
\* and met no error, and the call with the last sentence returned a result
RunOutcome(run, n) ==
    \A i \in 1..n :
        /\ i <= Len(run)
        /\ run[i].exc = "none"
        /\ run[i].errs = <<>>
        /\ run[i].res <=> (i = run[1].total)

\* the calls of a run that are no call with the last sentence
Before(run) == IF Len(run) < run[1].total THEN Len(run) ELSE run[1].total - 1

\* C1: when sentences 1, 2, ..., N of one message (valid checksums,
\* timestamps within the window) are given to normalize in this order with
\* no other line for their buffer slot in between, calls 1..N-1 return None,
\* call N returns one result whose payload is the N payloads in order and
\* whose original text is the N lines in order, and no error is signaled.
C1_InOrderReassembly ==
    \A s \in DOMAIN mon :
        LET run == mon[s].run
        IN  /\ RunOutcome(run, Before(run))
            /\ (Len(run) = run[1].total /\ RunInWindow(cfg, run)) =>
                  /\ RunOutcome(run, Len(run))
                  /\ last.slot = s =>
                        /\ last.ret # None
                        /\ PayloadOf(last.ret[2]) = RunPayload(run)
                        /\ last.ret[3] = RunLines(run)

\* a message of MaxTotal sentences has just been put together
C1_Witness ==
    \E s \in DOMAIN mon :
        /\ last.slot = s
        /\ mon[s].run[1].total = MaxTotal
        /\ Len(mon[s].run) = MaxTotal
        /\ RunInWindow(cfg, mon[s].run)
        /\ last.ret # None

\* C2: no call of normalize aborts: whatever the line and the buffers, the
\* call returns (a result or None) and raises no exception.
C2_NeverAborts == last.exc = "none"

\* C3: after a first sentence for a slot, then a first sentence for the slot
\* again, then the other sentences of the second message in order, one
\* result is returned in all; it is made of the sentences of the second
\* message only (payload, tagblock, original text), and no error is signaled
\* for the first sentence that was dropped.
C3_IdempotentRestart ==
    \A s \in DOMAIN mon :
        LET run == mon[s].run
            dropped == mon[s].dropped
        IN  dropped # <<>> =>
               /\ ~dropped[1].res
               /\ dropped[1].errs = <<>>
               /\ dropped[1].exc = "none"
               /\ RunOutcome(run, Before(run))
               /\ (Len(run) = run[1].total /\ RunInWindow(cfg, run)) =>
                     /\ RunOutcome(run, Len(run))
                     /\ last.slot = s =>
                           /\ last.ret # None
                           /\ last.ret[1] = RunTagblock(run)
                           /\ PayloadOf(last.ret[2]) = RunPayload(run)
                           /\ last.ret[3] = RunLines(run)
                           /\ "tagblock_destination" \in DOMAIN last.ret[1] <=>
                                 \E i \in 1..Len(run) :
                                     "tagblock_destination"
                                         \in DOMAIN LineTable[run[i].line].tagblock

\* the second message is complete, after a first sentence of another message
\* (with a destination in its tagblock) was dropped
C3_Witness ==
    \E s \in DOMAIN mon :
        /\ mon[s].dropped # <<>>
        /\ mon[s].dropped[1].line = AltFirst
        /\ mon[s].run[1].line # AltFirst
        /\ Len(mon[s].run) = mon[s].run[1].total
        /\ last.slot = s
        /\ last.ret # None

\* the last call was given the last sentence of a message of several
LastIsFinal ==
    /\ last.op # "none"
    /\ LastResolved.multi
    /\ LastResolved.total > 1
    /\ LastResolved.num = LastResolved.total

\* C4: a last sentence (number = total > 1) whose slot has no buffer signals
\* OnlyMessageEnd once, returns None and leaves the buffers as they were:
\* no buffer is made for the slot.
C4_EndWithoutStart ==
    (LastIsFinal /\ LastResolved.slot \notin DOMAIN last.pre) =>
        /\ Cardinality({i \in DOMAIN last.errs : last.errs[i].type = "OnlyMessageEnd"}) = 1
        /\ Len(last.errs) = 1
        /\ last.ret = None
        /\ last.exc = "none"
        /\ buffers = last.pre
        /\ LastResolved.slot \notin DOMAIN buffers

\* a last sentence arrived for a slot without a buffer
C4_Witness ==
    /\ LastIsFinal
    /\ LastResolved.slot \notin DOMAIN last.pre
    /\ last.errs # <<>>

\* the buffer of slot s is not what it was before the last call
Changed(s) ==
    \/ (s \in DOMAIN buffers) # (s \in DOMAIN last.pre)
    \/ s \in DOMAIN buffers /\ s \in DOMAIN last.pre /\ buffers[s] # last.pre[s]

\* the buffer of slot s is what it was before the last call and one packet
Extended(s) ==
    /\ s \in DOMAIN buffers
    /\ s \in DOMAIN last.pre
    /\ Len(buffers[s]) = Len(last.pre[s]) + 1
    /\ SubSeq(buffers[s], 1, Len(last.pre[s])) = last.pre[s]

\* the channel field of a line
ChannelOf(origline) == LineTable[origline].fields[5]

\* C5: a call with a line of buffer slot S changes the buffer of S at most.
\* A buffer is made or replaced by a first sentence for its slot only, it is
\* extended by a later sentence for its slot only, and it is removed by a
\* last sentence for its slot only.  With treat_ab_equal false, a result is
\* made of the payloads of sentences of its own channel only, also when the
\* messages of two channels (same station and sequence id) are interleaved.
C5_SlotIsolation ==
    last.op # "none" =>
        /\ \A s \in DOMAIN buffers \cup DOMAIN last.pre :
              Changed(s) =>
                 /\ LastResolved.multi
                 /\ s = LastResolved.slot
                 /\ Extended(s) =>
                       /\ 1 < LastResolved.num
                       /\ LastResolved.num < LastResolved.total
                       /\ buffers[s][Len(buffers[s])].origline = last.line
                 /\ (s \in DOMAIN buffers /\ ~Extended(s)) =>
                       /\ LastResolved.num = 1
                       /\ Len(buffers[s]) = 1
                       /\ buffers[s][1].origline = last.line
                 /\ s \notin DOMAIN buffers => LastIsFinal
        /\ (~cfg.treat_ab_equal /\ LastIsFinal /\ last.ret # None) =>
              LET parts == last.pre[LastResolved.slot]
              IN  /\ \A i \in 1..Len(parts) :
                         ChannelOf(parts[i].origline) = ChannelOf(last.line)
                  /\ PayloadOf(last.ret[2]) =
                         JoinParts(parts, "payload") \o LineTable[last.line].fields[6]

\* a message is put together while the message of the other channel is
\* half way
C5_Witness ==
    /\ ~cfg.treat_ab_equal
    /\ LastIsFinal
    /\ last.ret # None
    /\ Cardinality(DOMAIN last.pre) = 2
    /\ Cardinality(DOMAIN buffers) = 1

\* C6: with treat_ab_equal true, the messages of two channels with the same
\* station and sequence id have the same buffer slot: when the first sentence
\* of message 1 is followed by the first sentence of message 2, the sentence
\* of message 1 is dropped (it gives no result), and the result returned
\* with the last sentence of message 2 has nothing of message 1.
C6_ChannelFolding ==
    cfg.treat_ab_equal =>
        /\ Resolved(cfg, Uscg(2, 1, "A", "a", 5)).slot
              = Resolved(cfg, Uscg(2, 1, "B", "b", 5)).slot
        /\ \A s \in DOMAIN mon :
              LET run == mon[s].run
                  dropped == mon[s].dropped
                  ch == ChannelOf(run[1].line)
              IN  (dropped # <<>> /\ ChannelOf(dropped[1].line) # ch) =>
                     /\ ~dropped[1].res
                     /\ (Len(run) = 1 /\ last.slot = s) =>
                           /\ Len(buffers[s]) = 1
                           /\ buffers[s][1].origline = run[1].line
                     /\ (/\ Len(run) = run[1].total
                         /\ \A i \in 1..Len(run) : ChannelOf(run[i].line) = ch
                         /\ RunInWindow(cfg, run)
                         /\ last.slot = s) =>
                           /\ last.ret # None
                           /\ PayloadOf(last.ret[2]) = RunPayload(run)
                           /\ last.ret[3] = RunLines(run)

\* message 2 (channel B) is complete after the first sentence of message 1
\* (channel A) was dropped
C6_Witness ==
    /\ cfg.treat_ab_equal
    /\ \E s \in DOMAIN mon :
          /\ mon[s].dropped # <<>>
          /\ ChannelOf(mon[s].dropped[1].line) = "A"
          /\ \A i \in 1..Len(mon[s].run) : ChannelOf(mon[s].run[i].line) = "B"
          /\ Len(mon[s].run) = mon[s].run[1].total
          /\ last.slot = s
          /\ last.ret # None

\* the timestamp in the tagblock of a line or of a packet, NoneV without one
TagTs(tagblock) ==
    IF "tagblock_timestamp" \in DOMAIN tagblock /\ IsNumber(tagblock["tagblock_timestamp"])
    THEN tagblock["tagblock_timestamp"]
    ELSE NoneV

\* ts(part) - ts(final) for a buffered part and the line of the last call:
\* the timestamp fields when both are numbers, else the timestamps of the
\* tagblocks; a set, empty when one is missing
TsDifference(part) ==
    LET ts == FieldTs(last.line)
        tagblock == LineTable[last.line].tagblock
    IN  IF IsNumber(part.timestamp) /\ ts # NoneV
        THEN {ToNat(part.timestamp) - ToNat(ts)}
        ELSE IF TagTs(part.tagblock) # NoneV /\ TagTs(tagblock) # NoneV
        THEN {ToNat(TagTs(part.tagblock)) - ToNat(TagTs(tagblock))}
        ELSE {}

\* the last call was given the last sentence (7 fields or more) of a message
\* whose slot had a buffer, and every buffered part has a timestamp to
\* compare with the one of the last sentence
LastIsTimed ==
    /\ LastIsFinal
    /\ LastResolved.slot \in DOMAIN last.pre
    /\ Len(LineTable[last.line].fields) >= 7
    /\ \A i \in 1..Len(last.pre[LastResolved.slot]) :
          TsDifference(last.pre[LastResolved.slot][i]) # {}

\* C7: at a last sentence, when the timestamps of every part and of the last
\* sentence are there, the message is accepted iff |ts(part) - ts(final)| <=
\* window for every buffered part: a difference of window is accepted, a
\* larger one, either way, signals DifferingTimestamps and returns None.
C7_TimestampWindow ==
    LastIsTimed =>
        LET parts == last.pre[LastResolved.slot]
            within == \A i \in 1..Len(parts) :
                          \A d \in TsDifference(parts[i]) : Abs(d) <= cfg.window
        IN  /\ last.exc = "none"
            /\ within <=> last.ret # None
            /\ within => last.errs = <<>>
            /\ ~within =>
                  /\ Len(last.errs) = 1
                  /\ last.errs[1].type = "DifferingTimestamps"
            /\ LastResolved.slot \notin DOMAIN buffers

\* a message is accepted with a part whose timestamp is window away from
\* the one of the last sentence
C7_Witness ==
    /\ LastIsTimed
    /\ last.ret # None
    /\ \E i \in 1..Len(last.pre[LastResolved.slot]) :
          \E d \in TsDifference(last.pre[LastResolved.slot][i]) : Abs(d) = cfg.window

\* the sentence of a line: what follows its tagblock, without the white
\* space and the line ending around it
SentenceOf(origline) ==
    IF Head(origline) = "\\"
    THEN Strip(SubSeq(origline, IndexOf(Tail(origline), "\\") + 2, Len(origline)))
    ELSE Strip(origline)

\* the last call was given a VDM or VDO sentence of 6 fields or more that is
\* one message by itself, and its checksum was not found wrong
LastIsSingle ==
    /\ last.op # "none"
    /\ Len(SentenceOf(last.line)) >= 6
    /\ SubSeq(SentenceOf(last.line), 4, 6) \in {VDM, VDO}
    /\ Len(Split(SentenceOf(last.line), ",")) >= 6
    /\ Split(SentenceOf(last.line), ",")[2] = "1"
    /\ ~ChecksumFails(cfg, LineTable[last.line])

\* C8: a VDM/VDO sentence with 1 as number of sentences that passes the
\* checksum and has 6 fields or more gives a result in the same call: its
\* own tagblock, its own sentence (with one newline as line ending) and its
\* own line as original text; the buffers are left as they were, also when
\* a message of the same station, sequence id and channel is half way.
C8_SinglePassThrough ==
    LastIsSingle =>
        /\ last.exc = "none"
        /\ last.errs = <<>>
        /\ last.ret # None
        /\ last.ret[1] = parseTagBlock(last.line)[1]
        /\ last.ret[2] = SentenceOf(last.line) \o "\n"
        /\ last.ret[3] = last.line
        /\ buffers = last.pre

\* a single sentence was passed along while a message with its station,
\* sequence id and channel was half way
C8_Witness ==
    /\ LastIsSingle
    /\ last.line = Single
    /\ last.ret # None
    /\ BufferSlot(cfg, LineTable[Single].tagblock, LineTable[Single].fields) \in DOMAIN buffers

\* the last call was given a VDM or VDO sentence whose checksum was checked
\* and found wrong
LastFailsChecksum ==
    /\ last.op # "none"
    /\ ~NotAis(LineTable[last.line].line)
    /\ cfg.validate_checksum
    /\ ~isChecksumValid(SentenceOf(last.line))

\* what the last call would have done without the check of the checksum
Unchecked == normalize([cfg EXCEPT !.validate_checksum = FALSE], last.pre, last.line)

\* C9: with validate_checksum true, a VDM/VDO line whose checksum is wrong
\* signals InvalidChecksum.  With pass_invalid_checksums false the call
\* returns None and leaves the buffers as they were (the sentence is not
\* buffered); with pass_invalid_checksums true the line is dealt with from
\* there as a line with a valid checksum: whatever the call returns, signals
\* after InvalidChecksum and does to the buffers is what it does when the
\* checksum is not looked at.
C9_InvalidChecksumPolicy ==
    LastFailsChecksum =>
        /\ last.errs # <<>>
        /\ last.errs[1] = Err("InvalidChecksum", SentenceOf(last.line))
        /\ \A i \in 2..Len(last.errs) : last.errs[i].type # "InvalidChecksum"
        /\ ~cfg.pass_invalid_checksums =>
              /\ Len(last.errs) = 1
              /\ last.ret = None
              /\ last.exc = "none"
              /\ buffers = last.pre
        /\ cfg.pass_invalid_checksums =>
              /\ last.ret = Unchecked.ret
              /\ Tail(last.errs) = Unchecked.errs
              /\ last.exc = Unchecked.exc
              /\ buffers = Unchecked.buffers
              /\ (LastResolved.multi /\ LastResolved.num = 1) =>
                    buffers[LastResolved.slot][1].origline = last.line

\* a message was put together from a last sentence with a wrong checksum
\* that was passed
C9_Witness ==
    /\ LastFailsChecksum
    /\ cfg.pass_invalid_checksums
    /\ LastIsFinal
    /\ last.ret # None

\* C10: decode returns a dict only when normalize returned a result and
\* ais.decode succeeded.  When normalize returns None, decode returns None
\* and ais.decode is not called.  When ais.decode fails, one DecodeError
\* with the original text (white space around it stripped) is handed to
\* handle_err, decode returns None, no exception leaves decode, and the
\* buffers are as normalize left them for the lines to come.
C10_DecodeOutcome ==
    last.op = "decode" =>
        /\ last.out # None => (last.ret # None /\ last.decoder = "returned")
        /\ last.ret = None => (last.out = None /\ last.decoder = "idle")
        /\ last.decoder = "returned" => last.out # None
        /\ last.decoder = "raised" =>
              /\ last.ret # None
              /\ last.out = None
              /\ last.exc = "none"
              /\ Cardinality({i \in DOMAIN last.errs :
                                 last.errs[i].type = "DecodeError"}) = 1
              /\ last.errs[Len(last.errs)] = Err("DecodeError", Strip(last.ret[3]))
              /\ buffers = normalize(cfg, last.pre, last.line).buffers
        /\ last.decoder # "raised" =>
              \A i \in DOMAIN last.errs : last.errs[i].type # "DecodeError"

\* ais.decode failed on a message of several sentences
C10_Witness ==
    /\ last.op = "decode"
    /\ last.decoder = "raised"
    /\ LastIsFinal
    /\ last.ret # None

\* the errors of a type handed to handle_err by the last call
LastErrors(type) == {i \in DOMAIN last.errs : last.errs[i].type = type}

\* C11: the sentence returned for a message of several sentences passes the
\* check of the checksum (the two hex digits after its '*' are the checksum
\* of the text before it), so InvalidChecksumInConstructed is never
\* signaled; were it signaled, the sentence would still be returned.
C11_SynthesizedChecksum ==
    /\ (LastIsFinal /\ last.ret # None) =>
          /\ isChecksumValid(last.ret[2])
          /\ LastErrors("InvalidChecksumInConstructed") = {}
    /\ LastErrors("InvalidChecksumInConstructed") # {} => last.ret # None

\* the sentence number of the line a packet was made from
PacketNum(pkt) == ToNat(LineTable[pkt.origline].fields[3])

\* C12: when a result is returned for a message of N > 1 sentences, the
\* parts it is made of are N packets, one for each sentence number 1..N, in
\* this order, whatever the order the lines came in: sentences lost,
\* repeated or out of order never give a result.
C12_CompleteMessages ==
    (LastIsFinal /\ last.ret # None) =>
        LET parts == last.pre[LastResolved.slot]
        IN  /\ Len(parts) = LastResolved.total - 1
            /\ \A i \in 1..Len(parts) : PacketNum(parts[i]) = i

\* the last call was given a middle sentence (1 < number < total)
LastIsMiddle ==
    /\ last.op # "none"
    /\ LastResolved.multi
    /\ 1 < LastResolved.num
    /\ LastResolved.num < LastResolved.total

\* C13: a middle sentence whose slot has no buffer is let through in
\* silence: the call returns None, signals no error and raises nothing, and
\* the buffers are left as they were for the next line.
C13_MiddleWithoutBuffer ==
    (LastIsMiddle /\ LastResolved.slot \notin DOMAIN last.pre) =>
        /\ last.exc = "none"
        /\ last.ret = None
        /\ last.errs = <<>>
        /\ buffers = last.pre

\* the last call was given the last sentence of a message whose slot had a
\* buffer
LastCompletes == LastIsFinal /\ LastResolved.slot \in DOMAIN last.pre

\* C14: after a call with a last sentence for a slot that had a buffer, the
\* slot has no buffer, whether the call returned a result or signaled
\* MissingTimestamps or DifferingTimestamps; a message the sanity check
\* rejects gives no result, and none of its parts stays in the buffers.
C14_SlotRemoved ==
    LastCompletes =>
        /\ LastResolved.slot \notin DOMAIN buffers
        /\ buffers = [s \in DOMAIN last.pre \ {LastResolved.slot} |-> last.pre[s]]
        /\ (LastErrors("MissingTimestamps") \cup LastErrors("DifferingTimestamps")) # {} =>
              last.ret = None
        /\ last.exc = "none" =>
              \/ last.ret # None
              \/ Cardinality(LastErrors("MissingTimestamps")
                                \cup LastErrors("DifferingTimestamps")) = 1

\* a message of which a middle part has no timestamp was rejected with
\* MissingTimestamps
C14_Witness ==
    /\ LastCompletes
    /\ Len(last.pre[LastResolved.slot]) > 1
    /\ LastErrors("MissingTimestamps") # {}
    /\ last.ret = None

\* the parts the last sentence completes: the buffered ones and its own
LastParts ==
    Append(last.pre[LastResolved.slot],
           [timestamp |-> Strip(LineTable[last.line].fields[Len(LineTable[last.line].fields)]),
            tagblock |-> LineTable[last.line].tagblock])

\* part i has no pair of timestamps and none is allowed to be missing
PartMissing(i) == TsDifference(LastParts[i]) = {} /\ ~cfg.allow_missing_timestamps

\* the timestamps of part i are further apart than the window
PartDiffers(i) == \E d \in TsDifference(LastParts[i]) : Abs(d) > cfg.window

\* C15: for each part, the timestamps compared are the timestamp field of
\* the part and of the last sentence when both are numbers, else the
\* timestamps of the two tagblocks; when these are not there either, the part
\* is accepted (both taken as zero) with allow_missing_timestamps, and
\* without it MissingTimestamps is signaled and None returned.
C15_TimestampSource ==
    (LastCompletes /\ last.exc = "none") =>
        LET bad == {i \in 1..Len(LastParts) : PartMissing(i) \/ PartDiffers(i)}
            first == CHOOSE i \in bad : \A j \in bad : i <= j
        IN  IF bad = {}
            THEN /\ last.ret # None
                 /\ LastErrors("MissingTimestamps") = {}
                 /\ LastErrors("DifferingTimestamps") = {}
            ELSE /\ last.ret = None
                 /\ Len(last.errs) = 1
                 /\ last.errs[1].type =
                       IF PartMissing(first) THEN "MissingTimestamps"
                       ELSE "DifferingTimestamps"

\* a message was accepted on the timestamps of the tagblocks, the last
\* sentence having no timestamp field
C15_Witness ==
    /\ LastCompletes
    /\ ~cfg.allow_missing_timestamps
    /\ FieldTs(last.line) = NoneV
    /\ \A i \in 1..Len(LastParts) : TsDifference(LastParts[i]) # {}
    /\ last.ret # None

\* the fields of the sentence of the last call, without its line ending
LastFields == Split(SentenceOf(last.line), ",")

\* the fields the built sentence is to have: the head of the last sentence
\* with "1,1", the payloads of the parts, the fill bits with a new checksum,
\* and the fields that follow in the last sentence, without the timestamp
\* (the last field) when the timestamps of the last sentence are missing
ExpectedFields ==
    LET body == Join(<<LastFields[1], "1", "1", LastFields[4], LastFields[5],
                       JoinParts(last.pre[LastResolved.slot], "payload") \o LastFields[6],
                       Split(LastFields[7], "*")[1]>>, ",")
        n == Len(LastFields)
        sentinel == TsDifference(LastParts[Len(LastParts)]) = {}
    IN  Split(body \o "*" \o checksumStr(body), ",")
            \o (IF sentinel /\ n > 7 THEN SubSeq(LastFields, 8, n - 1)
                ELSE SubSeq(LastFields, 8, n))

\* C16: the fields of the built sentence are field 0 of the last sentence,
\* "1", "1", its sequence and channel fields, the payloads one after the
\* other, and its fill bits with '*' and the new checksum; then the fields
\* that follow in the last sentence and no other: all of them when there
\* were timestamps, all but the timestamp when they count as zero; no other
\* field is dropped and no empty field is added.
C16_SynthesizedShape ==
    (LastCompletes /\ last.ret # None /\ Len(LastFields) >= 7) =>
        /\ Split(Strip(last.ret[2]), ",") = ExpectedFields
        /\ last.ret[2] = Strip(last.ret[2]) \o "\n"

\* the tagblocks of LastParts
LastTagblocks ==
    [i \in 1..Len(LastParts) |-> LastParts[i].tagblock]

\* C17: the tagblock returned for a message of several sentences has the
\* keys of the tagblocks of all its parts, and for every key the value of
\* the part that arrived first among those that have the key.
C17_FirstPartWins ==
    (LastCompletes /\ last.ret # None) =>
        /\ DOMAIN last.ret[1] = UNION {DOMAIN LastTagblocks[i] : i \in 1..Len(LastParts)}
        /\ \A k \in DOMAIN last.ret[1] :
              \E i \in 1..Len(LastParts) :
                  /\ k \in DOMAIN LastTagblocks[i]
                  /\ \A j \in 1..(i - 1) : k \notin DOMAIN LastTagblocks[j]
                  /\ last.ret[1][k] = LastTagblocks[i][k]

\* a tagblock was returned with a key that two parts give different values,
\* and a key that the first part has not
C17_Witness ==
    /\ LastCompletes
    /\ last.ret # None
    /\ \E k \in DOMAIN last.ret[1] :
          \E i, j \in 1..Len(LastParts) :
              /\ k \in DOMAIN LastTagblocks[i]
              /\ k \in DOMAIN LastTagblocks[j]
              /\ LastTagblocks[i][k] # LastTagblocks[j][k]
    /\ \E k \in DOMAIN last.ret[1] : k \notin DOMAIN LastTagblocks[1]

\* the last call was given a line that is no AIS sentence: the line behind
\* its tagblock, with its end of line, is shorter than 7 characters, or the
\* three letters that follow the talker are neither VDM nor VDO
LastIsNotAis ==
    /\ last.op # "none"
    /\ LET text == SentenceOf(last.line) \o "\n"
       IN  \/ Len(text) < 7
           \/ SubSeq(text, 4, 6) \notin {VDM, VDO}

\* C18: a line that is no AIS sentence is returned by the very call it is
\* given to, as its tagblock, the line and the line as it was received; its
\* checksum is not looked at, nothing is handed to handle_err, no exception
\* is raised and the buffers are left as they were.
C18_NonAisPassThrough ==
    LastIsNotAis =>
        /\ last.ret = <<parseTagBlock(last.line)[1], SentenceOf(last.line) \o "\n", last.line>>
        /\ last.errs = <<>>
        /\ last.exc = "none"
        /\ buffers = last.pre

\* a line behind a tagblock that is no AIS sentence, whose checksum is wrong,
\* was returned by a normalizer that validates checksums, while a message
\* was being put together
C18_Witness ==
    /\ LastIsNotAis
    /\ cfg.validate_checksum
    /\ Len(SentenceOf(last.line)) >= 7
    /\ ~isChecksumValid(SentenceOf(last.line))
    /\ last.ret # None
    /\ DOMAIN last.ret[1] # {}
    /\ last.pre # NoBuffers

\* the number of sentences of the message a packet is a sentence of
PacketTotal(pkt) == ToNat(LineTable[pkt.origline].fields[2])

\* the slots that have a buffer and had none before the last call
Created == DOMAIN buffers \ DOMAIN last.pre

\* C19, as stated: between two calls every buffer is a non-empty sequence of
\* packets, the first one of a sentence number 1, none of a sentence whose
\* number is the number of sentences of its message or more; a buffer is only
\* created by a sentence number 1.
C19_BufferWellFormedAny ==
    /\ \A s \in DOMAIN buffers :
          /\ buffers[s] # <<>>
          /\ PacketNum(buffers[s][1]) = 1
          /\ \A i \in DOMAIN buffers[s] : PacketNum(buffers[s][i]) < PacketTotal(buffers[s][i])
    /\ Created # {} => LastResolved.multi /\ LastResolved.num = 1 /\ Created = {LastResolved.slot}

\* C19, for sentences whose number of sentences is one of 1..9: between two
\* calls every buffer is a non-empty sequence of packets, the first one of a
\* sentence number 1, and no packet of a message of 1..9 sentences is of a
\* sentence whose number is that number of sentences or more; a buffer is
\* only created by a sentence number 1, whatever its number of sentences.
C19_BufferWellFormed ==
    /\ \A s \in DOMAIN buffers :
          /\ buffers[s] # <<>>
          /\ PacketNum(buffers[s][1]) = 1
          /\ \A i \in DOMAIN buffers[s] :
                PacketTotal(buffers[s][i]) \in 1..9 =>
                    PacketNum(buffers[s][i]) < PacketTotal(buffers[s][i])
    /\ Created # {} => LastResolved.multi /\ LastResolved.num = 1 /\ Created = {LastResolved.slot}

\* a middle sentence was added to the buffer of its slot while another slot
\* has a buffer too, all of sentences of messages of 1..9 sentences
C19_Witness ==
    /\ LastIsMiddle
    /\ LastResolved.slot \in DOMAIN last.pre
    /\ Len(buffers[LastResolved.slot]) = Len(last.pre[LastResolved.slot]) + 1
    /\ Cardinality(DOMAIN buffers) > 1
    /\ \A s \in DOMAIN buffers : \A i \in DOMAIN buffers[s] : PacketTotal(buffers[s][i]) \in 1..9

\* every buffered packet is in the buffer of the slot of its own line
PacketsInOwnSlot ==
    \A s \in DOMAIN buffers :
        \A i \in DOMAIN buffers[s] : Resolved(cfg, buffers[s][i].origline).slot = s

\* C20: a received line is part of one result at most. A line returned by
\* itself is not buffered; the lines a message is made of are the buffer of
\* its slot followed by the last sentence, and that buffer is gone once the
\* result is returned; a buffered line is in the buffer of its own slot
\* only. So the last sentence given again right after its message was
\* returned signals OnlyMessageEnd once and returns nothing.
C20_AtMostOnce ==
    /\ PacketsInOwnSlot
    /\ (LastIsFinal /\ last.ret # None) =>
          /\ LastResolved.slot \in DOMAIN last.pre
          /\ LastResolved.slot \notin DOMAIN buffers
          /\ last.ret[3] = JoinParts(last.pre[LastResolved.slot], "origline") \o last.line
    /\ (last.op # "none" /\ last.ret # None /\ ~LastIsFinal) =>
          /\ last.ret[3] = last.line
          /\ buffers = last.pre
    /\ last.again =>
          /\ last.ret = None
          /\ Cardinality(LastErrors("OnlyMessageEnd")) = 1
          /\ last.exc = "none"
          /\ buffers = last.pre

\* the last sentence of a message of MaxTotal sentences was given again right
\* after the message was returned, and nothing was returned for it
C20_Witness ==
    /\ last.again
    /\ LastIsFinal
    /\ LastResolved.total = MaxTotal
    /\ last.ret = None
    /\ LastErrors("OnlyMessageEnd") # {}

====
